---- MODULE Spec2Model ----
(***************************************************************************)
(* Model of generate_app_icons.py: the icon table, the geometry and the    *)
(* compositing steps of generate_icon, convert_svg_to_png and the loop of  *)
(* main.                                                                   *)
(*                                                                         *)
(* Ratios reach the program as Python floats (IEEE-754 doubles) and every  *)
(* derived pixel quantity is int(<int> * <float>).  The products are       *)
(* therefore computed here as the doubles the program computes: a double   *)
(* is a sign and a magnitude held as five 15-bit limbs counting units of   *)
(* 2^-60, and every arithmetic result is rounded to 53 significant bits,   *)
(* ties to even.                                                           *)
(***************************************************************************)
EXTENDS Integers, Sequences, FiniteSets, TLC

\* ------------------------------------------------------------------------
\* Bounds of the model
\* ------------------------------------------------------------------------
\* ratios k / 2^GridBits, k = 0 .. 2^GridBits, are the inputs explored
GridBits == 2
\* most rasterizer process errors (CalledProcessError) injected in one run
MaxFail == 2
\* number of generations interleaved in the parallel specification
NPar == 2

\* ------------------------------------------------------------------------
\* The icon table
\* ------------------------------------------------------------------------
\* A file name "icon_40.png" is held as the tokens <<"icon_", 40, ".png">>.
Entry(size, n) == [size |-> size, name |-> <<"icon_", n, ".png">>]

ICON_SIZES ==
  << Entry(40, 40), Entry(60, 60), Entry(58, 58), Entry(87, 87),
     Entry(80, 80), Entry(120, 120), Entry(180, 180),
     Entry(20, 20), Entry(29, 29), Entry(76, 76), Entry(152, 152),
     Entry(167, 167),
     Entry(1024, 1024),
     Entry(16, 16), Entry(32, 32), Entry(64, 64), Entry(128, 128),
     Entry(256, 256), Entry(512, 512) >>

Sizes == {ICON_SIZES[i].size : i \in 1..Len(ICON_SIZES)}

\* ------------------------------------------------------------------------
\* Python float arithmetic
\* ------------------------------------------------------------------------
B == 2^15

Ratio(n, d) == [n |-> n, d |-> d]

BigOne == <<0, 0, 0, 0, 1>>

\* a * k for a small non-negative integer k
BigMulSmall(a, k) ==
  LET t1 == a[1] * k
      t2 == a[2] * k + (t1 \div B)
      t3 == a[3] * k + (t2 \div B)
      t4 == a[4] * k + (t3 \div B)
      t5 == a[5] * k + (t4 \div B)
  IN  <<t1 % B, t2 % B, t3 % B, t4 % B, t5>>

\* a <= b
BigLeq(a, b) ==
  LET RECURSIVE Cmp(_)
      Cmp(i) == IF i = 0 THEN TRUE
                ELSE IF a[i] # b[i] THEN a[i] < b[i]
                ELSE Cmp(i - 1)
  IN  Cmp(5)

\* a - b for b <= a
BigSub(a, b) ==
  LET d1 == a[1] - b[1]
      w1 == IF d1 < 0 THEN 1 ELSE 0
      d2 == a[2] - b[2] - w1
      w2 == IF d2 < 0 THEN 1 ELSE 0
      d3 == a[3] - b[3] - w2
      w3 == IF d3 < 0 THEN 1 ELSE 0
      d4 == a[4] - b[4] - w3
      w4 == IF d4 < 0 THEN 1 ELSE 0
      d5 == a[5] - b[5] - w4
  IN  <<d1 + w1 * B, d2 + w2 * B, d3 + w3 * B, d4 + w4 * B, d5>>

\* quotient and remainder of a by a small positive integer d
BigDivSmall(a, d) ==
  LET n5 == a[5]
      n4 == (n5 % d) * B + a[4]
      n3 == (n4 % d) * B + a[3]
      n2 == (n3 % d) * B + a[2]
      n1 == (n2 % d) * B + a[1]
  IN  [q |-> <<n1 \div d, n2 \div d, n3 \div d, n4 \div d, n5 \div d>>,
       r |-> n1 % d]

\* number of significant bits
BitLen(a) ==
  LET Bits(v) == CHOOSE k \in 0..16 : v < 2^k /\ (k = 0 \/ v >= 2^(k - 1))
      RECURSIVE Top(_)
      Top(i) == IF i = 0 THEN 0
                ELSE IF a[i] # 0 THEN 15 * (i - 1) + Bits(a[i])
                ELSE Top(i - 1)
  IN  Top(5)

\* propagate the carries of the limbs i .. 5 of t
RECURSIVE CarryFrom(_, _)
CarryFrom(t, i) ==
  IF i = 5 THEN t
  ELSE CarryFrom([t EXCEPT ![i] = t[i] % B, ![i + 1] = t[i + 1] + (t[i] \div B)],
                 i + 1)

\* r is the part of the magnitude below the rounding unit
RoundsUp(r, half, sticky, odd) == r > half \/ (r = half /\ (sticky \/ odd))

\* low holds the two low limbs of a; they are cut at unit and the carry of
\* the rounding goes into the upper limbs
RoundLow(a, sticky, unit, low) ==
  CarryFrom(<<low - (low % unit)
                + (IF RoundsUp(low % unit, unit \div 2, sticky,
                               (low \div unit) % 2 = 1)
                   THEN unit ELSE 0),
              0, a[3], a[4], a[5]>>, 1)

\* drop the s low bits of a
RoundAt(a, sticky, s) ==
  IF s <= 0 THEN a ELSE RoundLow(a, sticky, 2^s, a[1] + a[2] * B)

\* round to 53 significant bits, ties to even; sticky says that the exact
\* value lies strictly above a
Round53(a, sticky) == RoundAt(a, sticky, BitLen(a) - 53)

\* float("n/d"): the double nearest to the ratio n/d
Float(r) ==
  LET qr == BigDivSmall(<<0, 0, 0, 0, r.n>>, r.d)
  IN  [neg |-> FALSE, m |-> Round53(qr.q, qr.r # 0)]

\* 1 - 2 * x
Difference(a, b) ==
  IF BigLeq(b, a)
  THEN [neg |-> FALSE, m |-> BigSub(a, b)]
  ELSE [neg |-> TRUE, m |-> BigSub(b, a)]

Rounded(x) == [neg |-> x.neg, m |-> Round53(x.m, FALSE)]

OneMinusTwice(x) == Rounded(Difference(BigOne, BigMulSmall(x.m, 2)))

\* k * x for an integer k
IntTimes(k, x) ==
  LET mag == IF k < 0 THEN -k ELSE k
  IN  [neg |-> (k < 0) # x.neg,
       m |-> Round53(BigMulSmall(x.m, mag), FALSE)]

\* int(x): truncation toward zero
PyInt(x) == IF x.neg THEN -(x.m[5]) ELSE x.m[5]

\* ------------------------------------------------------------------------
\* Configuration (the argparse options handed to generate_icon)
\* ------------------------------------------------------------------------
Grid == {Ratio(k, 2^GridBits) : k \in 0..(2^GridBits)}

DefaultPadding == Ratio(15, 100)
DefaultScale == Ratio(1, 1)
DefaultCornerPadding == Ratio(0, 1)
DefaultShadowOffsetX == Ratio(0, 1)
DefaultShadowOffsetY == Ratio(2, 100)
DefaultShadowBlur == Ratio(5, 100)
DefaultShadowOpacity == Ratio(3, 10)

\* the ratio 0.2237 of create_rounded_rectangle_mask and of the shadow
RadiusRatio == Ratio(2237, 10000)

DefaultOutputDir == "generated-icons"

Config(rc, cp, p, c, sh, sx, sy, bl, op) ==
  [add_rounded_corners |-> rc, corner_padding_ratio |-> cp,
   padding_ratio |-> p, scale_ratio |-> c, add_shadow |-> sh,
   shadow_offset_x |-> sx, shadow_offset_y |-> sy,
   shadow_blur |-> bl, shadow_opacity |-> op]

\* ------------------------------------------------------------------------
\* generate_icon: geometry
\* ------------------------------------------------------------------------
\* faulty variant: the rounded-corner toggle is forgotten in the condition
RoundedIconSizeNoToggle(size, k) ==
  IF k.corner_padding_ratio.n > 0
  THEN PyInt(IntTimes(size, OneMinusTwice(Float(k.corner_padding_ratio))))
  ELSE size

RoundedIconSize(size, k) ==
  IF k.add_rounded_corners /\ k.corner_padding_ratio.n > 0
  THEN PyInt(IntTimes(size, OneMinusTwice(Float(k.corner_padding_ratio))))
  ELSE size

RoundedIconOffset(size, k) ==
  IF k.add_rounded_corners /\ k.corner_padding_ratio.n > 0
  THEN PyInt(IntTimes(size, Float(k.corner_padding_ratio)))
  ELSE 0

ContentSize(rounded_icon_size, k) ==
  PyInt(IntTimes(rounded_icon_size, OneMinusTwice(Float(k.padding_ratio))))

ScaledContentSize(content_size, k) ==
  PyInt(IntTimes(content_size, Float(k.scale_ratio)))

ContentOffset(rounded_icon_size, scaled_content_size) ==
  (rounded_icon_size - scaled_content_size) \div 2

\* the quantities of lines 105-132, each computed once
GeometryOfScaled(rounded_icon_size, rounded_icon_offset, scaled_content_size) ==
  [rounded_icon_size |-> rounded_icon_size,
   rounded_icon_offset |-> rounded_icon_offset,
   scaled_content_size |-> scaled_content_size,
   offset |-> ContentOffset(rounded_icon_size, scaled_content_size)]

GeometryOfRounded(k, rounded_icon_size, rounded_icon_offset) ==
  GeometryOfScaled(rounded_icon_size, rounded_icon_offset,
                   ScaledContentSize(ContentSize(rounded_icon_size, k), k))

Geometry(size, k) ==
  GeometryOfRounded(k, RoundedIconSize(size, k), RoundedIconOffset(size, k))

\* ------------------------------------------------------------------------
\* Files
\* ------------------------------------------------------------------------
\* faulty variant: one transient name for every size
TempPathShared(size) == <<"/tmp", <<"temp_icon_", 0, ".png">>>>

TempPath(size) == <<"/tmp", <<"temp_icon_", size, ".png">>>>

OutputPath(dir, name) == <<dir, name>>

\* the file system is a function from the paths that exist to the size of
\* the generation that wrote the file
FsWrite(f, path, who) ==
  [q \in (DOMAIN f) \cup {path} |-> IF q = path THEN who ELSE f[q]]

FsRemove(f, path) == [q \in (DOMAIN f) \ {path} |-> f[q]]

\* ------------------------------------------------------------------------
\* convert_svg_to_png
\* ------------------------------------------------------------------------
\* raster is what the subprocess does: "ok", "error" (CalledProcessError)
\* or "notfound" (FileNotFoundError)
convert_svg_to_png(raster) ==
  IF raster = "ok" THEN "True" ELSE "False"

\* ------------------------------------------------------------------------
\* generate_icon: compositing
\* ------------------------------------------------------------------------
\* faulty variant: the radius is rounded to nearest instead of truncated
RadiusRounded(size) ==
  (2 * size * RadiusRatio.n + RadiusRatio.d) \div (2 * RadiusRatio.d)

Radius(size) == PyInt(IntTimes(size, Float(RadiusRatio)))

create_rounded_rectangle_mask(size) == <<"mask", size, Radius(size)>>

\* lines 163-172: the rectangle of the shadow
ShadowRectangle(shadow_left, shadow_top, rounded_icon_size, radius, alpha) ==
  <<"rounded_rectangle", shadow_left, shadow_top,
    shadow_left + rounded_icon_size, shadow_top + rounded_icon_size,
    radius, alpha>>

\* lines 175-177: the blur, skipped for a radius of 0
ShadowBlur(blur_radius) ==
  IF blur_radius > 0 THEN << <<"blur", blur_radius>> >> ELSE << >>

\* lines 151-180
ShadowLayer(size, k, g) ==
  << <<"new", "shadow", size>>,
     ShadowRectangle(
       g.rounded_icon_offset + PyInt(IntTimes(size, Float(k.shadow_offset_x))),
       g.rounded_icon_offset + PyInt(IntTimes(size, Float(k.shadow_offset_y))),
       g.rounded_icon_size,
       Radius(g.rounded_icon_size),
       PyInt(IntTimes(255, Float(k.shadow_opacity)))) >>
  \o ShadowBlur(PyInt(IntTimes(size, Float(k.shadow_blur))))
  \o << <<"paste", "shadow", "final_output", 0>> >>

\* lines 126-135: the background and the content pasted on it
Background(g) ==
  << <<"new", "icon", g.rounded_icon_size>>,
     <<"open", "content">>,
     <<"paste", "content", "icon", g.offset>> >>

\* lines 139-142: the rounded mask applied to a copy of the icon
RoundedOutput(g) ==
  << create_rounded_rectangle_mask(g.rounded_icon_size),
     <<"new", "rounded_output", g.rounded_icon_size>>,
     <<"paste", "icon", "rounded_output", 0>>,
     <<"putalpha", "rounded_output">> >>

\* lines 146-184: the full canvas, the shadow, then the rounded icon
FinalOutput(size, k, g) ==
  << <<"new", "final_output", size>> >>
  \o (IF k.add_shadow THEN ShadowLayer(size, k, g) ELSE << >>)
  \o << <<"paste", "rounded_output", "final_output", g.rounded_icon_offset>> >>

\* the operations of lines 126-186 in program order and the side length of
\* the image bound to icon when they end
Composite(size, k, g) ==
  IF k.add_rounded_corners
  THEN IF k.corner_padding_ratio.n > 0 \/ k.add_shadow
       THEN [ops |-> Background(g) \o RoundedOutput(g) \o FinalOutput(size, k, g),
             side |-> size]
       ELSE [ops |-> Background(g) \o RoundedOutput(g),
             side |-> g.rounded_icon_size]
  ELSE [ops |-> Background(g), side |-> g.rounded_icon_size]

\* ------------------------------------------------------------------------
\* generate_icon
\* ------------------------------------------------------------------------
\* What the environment does during one call: raster is the outcome of the
\* rsvg-convert subprocess, load and save say whether Image.open and
\* icon.save work (FALSE: they raise).
Envs ==
  {e \in [raster : {"ok", "error", "notfound"}, load : BOOLEAN,
          save : BOOLEAN] :
     (e.raster = "ok" \/ e.load) /\ (e.load \/ e.save)
     /\ (e.raster = "ok" \/ e.save)}

NoResult ==
  [ret |-> "none", size |-> 0, requested |-> 0, offset |-> 0, ops |-> << >>,
   saved |-> -1, stage |-> "none"]

\* the call has ended with ret at stage, having got as far as cmp
Result(size, g, ret, stage, ops, saved) ==
  [ret |-> ret, size |-> size, requested |-> g.scaled_content_size,
   offset |-> IF stage \in {"save", "return"} THEN g.offset ELSE 0,
   ops |-> ops, saved |-> saved, stage |-> stage]

\* faulty variant: the image is saved before the conversion result is looked at, so
\* that a failed size still gets an output file
generate_icon_save_first(size, output_path, k, e, f, g, cmp) ==
  IF convert_svg_to_png(e.raster) # "True"
  THEN [res |-> Result(size, g, "False", "convert", << >>, -1),
        fs |-> FsWrite(f, output_path, size)]
  ELSE [res |-> Result(size, g, "True", "return", cmp.ops, cmp.side),
        fs |-> FsWrite(f, output_path, size)]

\* lines 120-194 for the geometry g and the compositing cmp.  The result of
\* the call and the file system it leaves: ret is "True", "False" or
\* "raise" (an exception leaves generate_icon); stage is the step at which
\* the call ended.
generate_icon_from(size, output_path, k, e, f, g, cmp) ==
  IF convert_svg_to_png(e.raster) # "True"
  THEN [res |-> Result(size, g, "False", "convert", << >>, -1), fs |-> f]
  ELSE IF g.rounded_icon_size < 0
  THEN \* Image.new refuses a negative side
       [res |-> Result(size, g, "raise", "new", << >>, -1),
        fs |-> FsWrite(f, TempPath(size), size)]
  ELSE IF ~e.load
  THEN [res |-> Result(size, g, "raise", "open", << >>, -1),
        fs |-> FsWrite(f, TempPath(size), size)]
  ELSE IF ~e.save
  THEN \* icon.save cannot write output_path and leaves no file there
       [res |-> Result(size, g, "raise", "save", cmp.ops, -1),
        fs |-> FsWrite(f, TempPath(size), size)]
  ELSE [res |-> Result(size, g, "True", "return", cmp.ops, cmp.side),
        fs |-> FsRemove(FsWrite(FsWrite(f, TempPath(size), size),
                                output_path, size),
                        TempPath(size))]

generate_icon_of(size, output_path, k, e, f, g) ==
  generate_icon_from(size, output_path, k, e, f, g, Composite(size, k, g))

generate_icon(size, output_path, k, e, f) ==
  generate_icon_of(size, output_path, k, e, f, Geometry(size, k))

\* ------------------------------------------------------------------------
\* State
\* ------------------------------------------------------------------------
VARIABLES
  svg_exists,     \* the vector source file exists
  tool_found,     \* rsvg-convert is installed
  output_dir,     \* args.output_dir
  cfg,            \* the options handed to generate_icon
  pc,             \* position of main
  idx,            \* index into ICON_SIZES of the next entry of the loop
  success_count,
  exit_status,    \* -1 while the process runs
  dir_created,    \* output_dir.mkdir has run
  attempted,      \* the calls of generate_icon made so far: size and result
  nfail,          \* rasterizer process errors so far
  fs,             \* the files written by this run
  res,            \* the last call of generate_icon
  ppc,            \* position of each interleaved generation
  foreign         \* a generation touched a file of another generation

vars == <<svg_exists, tool_found, output_dir, cfg, pc, idx, success_count,
          exit_status, dir_created, attempted, nfail, fs, res, ppc, foreign>>

EmptyFs == [q \in {} |-> 0]

OutputDirs == {DefaultOutputDir, "/tmp"}

DefaultConfig(rc, cp, sh) ==
  Config(rc, cp, DefaultPadding, DefaultScale, sh, DefaultShadowOffsetX,
         DefaultShadowOffsetY, DefaultShadowBlur, DefaultShadowOpacity)

\* ------------------------------------------------------------------------
\* main
\* ------------------------------------------------------------------------
RunConfigs ==
  {DefaultConfig(rc, cp, sh) :
     rc \in BOOLEAN, cp \in {DefaultCornerPadding, Ratio(1, 2^GridBits)},
     sh \in BOOLEAN}

Init ==
  /\ svg_exists \in BOOLEAN
  /\ tool_found \in BOOLEAN
  /\ output_dir \in OutputDirs
  /\ cfg \in RunConfigs
  /\ pc = "start"
  /\ idx = 1
  /\ success_count = 0
  /\ exit_status = -1
  /\ dir_created = FALSE
  /\ attempted = << >>
  /\ nfail = 0
  /\ fs = EmptyFs
  /\ res = NoResult
  /\ ppc = << >>
  /\ foreign = FALSE

\* faulty variant: the existence check of the source file is missing
MainStartNoCheck ==
  /\ pc = "start"
  /\ pc' = "loop"
  /\ dir_created' = TRUE
  /\ UNCHANGED <<svg_exists, tool_found, output_dir, cfg, idx, success_count,
                 exit_status, attempted, nfail, fs, res, ppc, foreign>>

\* lines 225-255: the source check, mkdir, the banner
MainStart ==
  /\ pc = "start"
  /\ IF ~svg_exists
     THEN /\ pc' = "exit"
          /\ exit_status' = 1
          /\ UNCHANGED dir_created
     ELSE /\ pc' = "loop"
          /\ dir_created' = TRUE
          /\ UNCHANGED exit_status
  /\ UNCHANGED <<svg_exists, tool_found, output_dir, cfg, idx, success_count,
                 attempted, nfail, fs, res, ppc, foreign>>

\* the outcomes of the subprocess that the installation allows
RasterOutcomes ==
  IF tool_found
  THEN {"ok"} \cup (IF nfail < MaxFail THEN {"error"} ELSE {})
  ELSE {"notfound"}

\* faulty variant: the run stops at the first size that fails
LoopBodyAbort(r) ==
  /\ res' = r.res
  /\ fs' = r.fs
  /\ attempted' = Append(attempted, [size |-> r.res.size, ret |-> r.res.ret])
  /\ IF r.res.ret # "True"
     THEN /\ pc' = "exit"
          /\ exit_status' = 1
          /\ UNCHANGED <<idx, success_count>>
     ELSE /\ idx' = idx + 1
          /\ success_count' = success_count + 1
          /\ UNCHANGED <<pc, exit_status>>

\* faulty variant: every attempted size is counted as a success
LoopBodyCountAll(r) ==
  /\ res' = r.res
  /\ fs' = r.fs
  /\ attempted' = Append(attempted, [size |-> r.res.size, ret |-> r.res.ret])
  /\ IF r.res.ret = "raise"
     THEN /\ pc' = "exit"
          /\ exit_status' = 1
          /\ UNCHANGED <<idx, success_count>>
     ELSE /\ idx' = idx + 1
          /\ success_count' = success_count + 1
          /\ UNCHANGED <<pc, exit_status>>

\* what one iteration of the loop does with the result r of generate_icon
LoopBody(r) ==
  /\ res' = r.res
  /\ fs' = r.fs
  /\ attempted' = Append(attempted, [size |-> r.res.size, ret |-> r.res.ret])
  /\ IF r.res.ret = "raise"
     THEN \* the exception leaves main: traceback, status 1
          /\ pc' = "exit"
          /\ exit_status' = 1
          /\ UNCHANGED <<idx, success_count>>
     ELSE /\ idx' = idx + 1
          /\ success_count' =
               IF r.res.ret = "True" THEN success_count + 1 ELSE success_count
          /\ UNCHANGED <<pc, exit_status>>

\* lines 259-281: one iteration of the loop over ICON_SIZES
MainLoop ==
  /\ pc = "loop"
  /\ idx <= Len(ICON_SIZES)
  /\ \E e \in Envs :
       /\ e.raster \in RasterOutcomes
       /\ LoopBody(generate_icon(ICON_SIZES[idx].size,
                                OutputPath(output_dir, ICON_SIZES[idx].name),
                                cfg, e, fs))
       /\ nfail' = IF e.raster = "error" THEN nfail + 1 ELSE nfail
  /\ UNCHANGED <<svg_exists, tool_found, output_dir, cfg, dir_created, ppc,
                 foreign>>

\* lines 283-287: the tally; main returns and the process exits with 0
MainFinish ==
  /\ pc = "loop"
  /\ idx > Len(ICON_SIZES)
  /\ pc' = "exit"
  /\ exit_status' = 0
  /\ UNCHANGED <<svg_exists, tool_found, output_dir, cfg, idx, success_count,
                 dir_created, attempted, nfail, fs, res, ppc, foreign>>

Next == MainStart \/ MainLoop \/ MainFinish

Spec == Init /\ [][Next]_vars

\* ------------------------------------------------------------------------
\* One call of generate_icon on its own, over the grid of options
\* ------------------------------------------------------------------------
GridOr(r) == Grid \cup {r}

GeomConfigs ==
  {Config(rc, cp, p, c, sh, DefaultShadowOffsetX, DefaultShadowOffsetY,
          DefaultShadowBlur, DefaultShadowOpacity) :
     rc \in BOOLEAN, cp \in Grid, p \in GridOr(DefaultPadding),
     c \in GridOr(DefaultScale), sh \in BOOLEAN}
  \cup
  {Config(rc, cp, DefaultPadding, DefaultScale, TRUE, sx, sy,
          DefaultShadowBlur, DefaultShadowOpacity) :
     rc \in BOOLEAN, cp \in {DefaultCornerPadding, Ratio(1, 2^GridBits)},
     sx \in GridOr(DefaultShadowOffsetX), sy \in GridOr(DefaultShadowOffsetY)}
  \cup
  {Config(rc, cp, DefaultPadding, DefaultScale, TRUE, DefaultShadowOffsetX,
          DefaultShadowOffsetY, bl, op) :
     rc \in BOOLEAN, cp \in {DefaultCornerPadding, Ratio(1, 2^GridBits)},
     bl \in GridOr(DefaultShadowBlur), op \in GridOr(DefaultShadowOpacity)}

InitGeom ==
  /\ svg_exists = TRUE
  /\ tool_found = TRUE
  /\ output_dir = DefaultOutputDir
  /\ cfg \in GeomConfigs
  /\ pc = "call"
  /\ idx \in 1..Len(ICON_SIZES)
  /\ success_count = 0
  /\ exit_status = -1
  /\ dir_created = TRUE
  /\ attempted = << >>
  /\ nfail = 0
  /\ fs = EmptyFs
  /\ res = NoResult
  /\ ppc = << >>
  /\ foreign = FALSE

\* the call has returned r
Returned(r) == res' = r.res /\ fs' = r.fs

\* generate_icon is called for the entry idx
GeomCall ==
  /\ pc = "call"
  /\ \E e \in Envs :
       /\ e.raster \in RasterOutcomes
       /\ Returned(generate_icon(ICON_SIZES[idx].size,
                                OutputPath(output_dir, ICON_SIZES[idx].name),
                                cfg, e, fs))
  /\ pc' = "returned"
  /\ UNCHANGED <<svg_exists, tool_found, output_dir, cfg, idx, success_count,
                 exit_status, dir_created, attempted, nfail, ppc, foreign>>

NextGeom == GeomCall

GeomSpec == InitGeom /\ [][NextGeom]_vars

\* ------------------------------------------------------------------------
\* The generations of several entries interleaved at their file operations
\* ------------------------------------------------------------------------
\* the file at path exists and was written by another generation
Others(f, path, who) == path \in DOMAIN f /\ f[path] # who

\* the file at path is missing or was written by another generation
NotMine(f, path, who) == path \notin DOMAIN f \/ f[path] # who

InitPar ==
  /\ svg_exists = TRUE
  /\ tool_found = TRUE
  /\ output_dir \in OutputDirs
  /\ cfg = DefaultConfig(TRUE, DefaultCornerPadding, FALSE)
  /\ pc = "loop"
  /\ idx = 1
  /\ success_count = 0
  /\ exit_status = -1
  /\ dir_created = TRUE
  /\ attempted = << >>
  /\ nfail = 0
  /\ fs = EmptyFs
  /\ res = NoResult
  /\ ppc \in {[i \in S |-> "convert"] :
                S \in {T \in SUBSET (1..Len(ICON_SIZES)) :
                         Cardinality(T) = NPar}}
  /\ foreign = FALSE

ParUnchanged ==
  UNCHANGED <<svg_exists, tool_found, output_dir, cfg, pc, idx, success_count,
              exit_status, dir_created, attempted, nfail, res>>

\* line 122: the subprocess writes the transient file, or fails
ParConvert ==
  \E i \in DOMAIN ppc, raster \in {"ok", "error"} :
    LET size == ICON_SIZES[i].size
    IN  /\ ppc[i] = "convert"
        /\ IF convert_svg_to_png(raster) = "True"
           THEN /\ fs' = FsWrite(fs, TempPath(size), size)
                /\ foreign' = (foreign \/ Others(fs, TempPath(size), size))
                /\ ppc' = [ppc EXCEPT ![i] = "open"]
           ELSE /\ ppc' = [ppc EXCEPT ![i] = "done"]
                /\ UNCHANGED <<fs, foreign>>
        /\ ParUnchanged

\* line 129: Image.open reads the transient file
ParOpen ==
  \E i \in DOMAIN ppc, load \in BOOLEAN :
    LET size == ICON_SIZES[i].size
    IN  /\ ppc[i] = "open"
        /\ foreign' = (foreign \/ NotMine(fs, TempPath(size), size))
        /\ ppc' = [ppc EXCEPT ![i] = IF load THEN "save" ELSE "done"]
        /\ UNCHANGED fs
        /\ ParUnchanged

\* line 189: icon.save writes the output file, or raises
ParSave ==
  \E i \in DOMAIN ppc, save \in BOOLEAN :
    LET size == ICON_SIZES[i].size
        output_path == OutputPath(output_dir, ICON_SIZES[i].name)
    IN  /\ ppc[i] = "save"
        /\ IF save
           THEN /\ fs' = FsWrite(fs, output_path, size)
                /\ foreign' = (foreign \/ Others(fs, output_path, size))
                /\ ppc' = [ppc EXCEPT ![i] = "remove"]
           ELSE /\ ppc' = [ppc EXCEPT ![i] = "done"]
                /\ UNCHANGED <<fs, foreign>>
        /\ ParUnchanged

\* line 192: os.remove deletes the transient file
ParRemove ==
  \E i \in DOMAIN ppc :
    LET size == ICON_SIZES[i].size
    IN  /\ ppc[i] = "remove"
        /\ foreign' = (foreign \/ NotMine(fs, TempPath(size), size))
        /\ fs' = FsRemove(fs, TempPath(size))
        /\ ppc' = [ppc EXCEPT ![i] = "done"]
        /\ ParUnchanged

NextPar == ParConvert \/ ParOpen \/ ParSave \/ ParRemove

ParSpec == InitPar /\ [][NextPar]_vars

\* ------------------------------------------------------------------------
\* Vocabulary of the properties
\* ------------------------------------------------------------------------
Rets == {attempted[i].ret : i \in 1..Len(attempted)}

OutputPathOf(i) == OutputPath(output_dir, ICON_SIZES[i].name)

OutputPaths == {OutputPathOf(i) : i \in 1..Len(ICON_SIZES)}

\* exact rational arithmetic on a ratio r = n/d: floor(k * r),
\* floor(k * (1 - 2r)) and the nearest integer to k * r (k * r >= 0)
FloorTimes(k, r) == (k * r.n) \div r.d

FloorTimesOneMinusTwice(k, r) == (k * (r.d - 2 * r.n)) \div r.d

NearestTimes(k, r) == (2 * k * r.n + r.d) \div (2 * r.d)

IsNew(op, what) == op[1] = "new" /\ op[2] = what

IsPaste(op, src, dst) == op[1] = "paste" /\ op[2] = src /\ op[3] = dst

OpsWhere(P(_)) == {i \in 1..Len(res.ops) : P(res.ops[i])}

IsMask(op) == op[1] = "mask"

IsShadowRect(op) == op[1] = "rounded_rectangle"

IsBlur(op) == op[1] = "blur"

IsNewFinal(op) == IsNew(op, "final_output")

IsNewShadow(op) == IsNew(op, "shadow")

IsPasteShadow(op) == IsPaste(op, "shadow", "final_output")

IsPasteIcon(op) ==
  IsPaste(op, "rounded_output", "final_output")
  \/ IsPaste(op, "icon", "final_output")

\* ------------------------------------------------------------------------
\* C1
\* ------------------------------------------------------------------------
\* C1: whenever generate_icon succeeds, the image it saves is S x S for the
\* requested size S, whatever the options and whatever the side of the
\* intermediate rounded canvas.
Thm_C1 == res.ret = "True" => res.saved = res.size

\* a successful call whose intermediate canvas is smaller than the output
Wit_C1 ==
  /\ res.ret = "True"
  /\ cfg.add_rounded_corners
  /\ RoundedIconSize(res.size, cfg) < res.size
  /\ RoundedIconSize(res.size, cfg) > 0
  /\ res.saved = res.size

\* ------------------------------------------------------------------------
\* C2
\* ------------------------------------------------------------------------
\* C2 as stated: when the rasterizer tool is not found the run ends with a
\* nonzero status before the generation of any size begins.
Claim_C2 ==
  ~tool_found => (attempted = << >> /\ (pc = "exit" => exit_status # 0))

\* C2 amended: when the rasterizer tool is not found (and the source file
\* exists) the run is not aborted: every call of generate_icon returns
\* False and writes nothing, all 19 sizes are attempted, the success count
\* stays 0 and the run exits with status 0.
Thm_C2 ==
  (~tool_found /\ svg_exists) =>
     /\ Rets \subseteq {"False"}
     /\ fs = EmptyFs
     /\ success_count = 0
     /\ pc = "exit" => (exit_status = 0 /\ Len(attempted) = Len(ICON_SIZES))

\* the run without the tool has ended
Wit_C2 ==
  /\ ~tool_found
  /\ pc = "exit"
  /\ exit_status = 0
  /\ Len(attempted) = Len(ICON_SIZES)
  /\ res.ret = "False"

\* ------------------------------------------------------------------------
\* C3
\* ------------------------------------------------------------------------
\* C3: after a call of generate_icon for a size has ended (success,
\* rasterizer failure, or an error raised while loading, compositing or
\* saving) the transient file of that size does not exist.
Claim_C3 ==
  \A i \in 1..Len(attempted) : TempPath(attempted[i].size) \notin DOMAIN fs

\* ------------------------------------------------------------------------
\* C4
\* ------------------------------------------------------------------------
\* C4: rasterizer failures do not stop the run: the sizes are attempted in
\* table order, the success count is the number of calls that returned
\* True, and a run in which no call raised attempts all 19 sizes and exits
\* with status 0.
Thm_C4 ==
  /\ \A i \in 1..Len(attempted) : attempted[i].size = ICON_SIZES[i].size
  /\ success_count =
       Cardinality({i \in 1..Len(attempted) : attempted[i].ret = "True"})
  /\ (pc = "exit" /\ svg_exists /\ "raise" \notin Rets) =>
        (Len(attempted) = Len(ICON_SIZES) /\ exit_status = 0)

\* a finished run in which the rasterizer failed for some sizes, one of
\* them before the last success
Wit_C4 ==
  /\ tool_found
  /\ pc = "exit"
  /\ exit_status = 0
  /\ nfail = MaxFail
  /\ attempted[1].ret = "False"
  /\ success_count = Len(ICON_SIZES) - MaxFail

\* ------------------------------------------------------------------------
\* C5
\* ------------------------------------------------------------------------
\* C5: when the source file does not exist the run ends with a nonzero
\* status and nothing has happened: no size attempted (so no rasterizer
\* call), no file written, the output directory not created.
Thm_C5 ==
  ~svg_exists =>
     /\ pc \in {"start", "exit"}
     /\ attempted = << >>
     /\ fs = EmptyFs
     /\ ~dir_created
     /\ pc = "exit" => exit_status = 1

\* the aborted run
Wit_C5 == ~svg_exists /\ pc = "exit" /\ exit_status = 1

\* ------------------------------------------------------------------------
\* C6
\* ------------------------------------------------------------------------
\* C6: the output files written by a run are exactly those of the sizes
\* whose call returned True; a size whose rasterization failed has none.
Thm_C6 ==
  {q \in DOMAIN fs : q \in OutputPaths} =
  {OutputPathOf(i) : i \in {j \in 1..Len(attempted) :
                               attempted[j].ret = "True"}}

\* a size failed in the rasterizer, has no output file, and a later size
\* has one
Wit_C6 ==
  \E i, j \in 1..Len(attempted) :
    /\ i < j
    /\ tool_found
    /\ attempted[i].ret = "False"
    /\ OutputPathOf(i) \notin DOMAIN fs
    /\ attempted[j].ret = "True"
    /\ OutputPathOf(j) \in DOMAIN fs

\* ------------------------------------------------------------------------
\* C7
\* ------------------------------------------------------------------------
\* the rounded size R of the claim
ClaimR ==
  IF ~cfg.add_rounded_corners \/ cfg.corner_padding_ratio.n = 0
  THEN res.size
  ELSE FloorTimesOneMinusTwice(res.size, cfg.corner_padding_ratio)

\* C7: the side requested from the rasterizer is floor(floor(R*(1-2p))*c)
\* and the content is placed at floor((R - that side)/2).  Stated for the
\* calls in which no quantity is negative (p and the corner padding at most
\* 1/2), where flooring and the truncation of int() agree on exact values.
Claim_C7 ==
  (/\ res.ret # "none"
   /\ 2 * cfg.padding_ratio.n <= cfg.padding_ratio.d
   /\ 2 * cfg.corner_padding_ratio.n <= cfg.corner_padding_ratio.d) =>
     /\ res.requested =
          FloorTimes(FloorTimesOneMinusTwice(ClaimR, cfg.padding_ratio),
                     cfg.scale_ratio)
     /\ res.ret = "True" => res.offset = (ClaimR - res.requested) \div 2

\* ------------------------------------------------------------------------
\* C8
\* ------------------------------------------------------------------------
\* C8: with the shadow enabled, rounded corners on or off, a successful
\* generation builds the shadow layer, composites it onto a fresh
\* transparent size x size canvas and composites the icon onto that canvas
\* after the shadow.
Claim_C8 ==
  (res.ret = "True" /\ cfg.add_shadow) =>
     \E c \in OpsWhere(IsNewFinal), l \in OpsWhere(IsNewShadow),
        s \in OpsWhere(IsPasteShadow), i \in OpsWhere(IsPasteIcon) :
       /\ res.ops[c][3] = res.size
       /\ res.ops[l][3] = res.size
       /\ c < s
       /\ l < s
       /\ s < i

\* ------------------------------------------------------------------------
\* C9
\* ------------------------------------------------------------------------
\* the values of the mask and of the shadow of a successful call, when the
\* derived quantities are obtained from the products by Q
MaskShadowValues(Q(_, _)) ==
  LET rsize == RoundedIconSize(res.size, cfg)
      roff == RoundedIconOffset(res.size, cfg)
      left == roff + Q(res.size, cfg.shadow_offset_x)
      top == roff + Q(res.size, cfg.shadow_offset_y)
  IN  /\ \A i \in OpsWhere(IsMask) : res.ops[i][3] = Q(rsize, RadiusRatio)
      /\ \A i \in OpsWhere(IsShadowRect) :
           res.ops[i] = <<"rounded_rectangle", left, top, left + rsize,
                          top + rsize, Q(rsize, RadiusRatio),
                          Q(255, cfg.shadow_opacity)>>
      /\ \A i \in OpsWhere(IsBlur) :
           res.ops[i][2] = Q(res.size, cfg.shadow_blur)
      /\ \A i \in OpsWhere(IsShadowRect) :
           (OpsWhere(IsBlur) = {}) <=> (Q(res.size, cfg.shadow_blur) = 0)

\* C9 as stated: corner radius, shadow offsets, blur radius and shadow
\* alpha are the products rounded to the nearest integer, the blur being
\* skipped only when the rounded radius is 0.
Claim_C9 == res.ret = "True" => MaskShadowValues(NearestTimes)

\* C9 amended: corner radius, shadow offsets, blur radius and shadow alpha
\* are the products truncated to an integer (int()), the blur being skipped
\* exactly when the truncated radius is 0.
Thm_C9 == res.ret = "True" => MaskShadowValues(FloorTimes)

\* a successful call that draws mask and shadow, with a blur, where
\* truncation and rounding of the radius differ
Wit_C9 ==
  /\ res.ret = "True"
  /\ OpsWhere(IsMask) # {}
  /\ OpsWhere(IsShadowRect) # {}
  /\ OpsWhere(IsBlur) # {}
  /\ FloorTimes(RoundedIconSize(res.size, cfg), RadiusRatio)
       # NearestTimes(RoundedIconSize(res.size, cfg), RadiusRatio)

\* ------------------------------------------------------------------------
\* C10
\* ------------------------------------------------------------------------
\* C10: the entries of the table have pairwise distinct transient paths
\* and output paths, so under any interleaving of the generations no
\* generation reads, overwrites or removes a file of another size.
Thm_C10 ==
  /\ ~foreign
  /\ \A q \in DOMAIN fs :
       \E i \in DOMAIN ppc :
         /\ ICON_SIZES[i].size = fs[q]
         /\ q \in {TempPath(fs[q]), OutputPathOf(i)}
  /\ \A i, j \in DOMAIN ppc :
       i # j => /\ TempPath(ICON_SIZES[i].size) # TempPath(ICON_SIZES[j].size)
                /\ OutputPathOf(i) # OutputPathOf(j)

\* two generations hold their transient files at the same time, one about
\* to remove its own
Wit_C10 ==
  \E i, j \in DOMAIN ppc :
    /\ i # j
    /\ ppc[i] = "remove"
    /\ ppc[j] = "save"
    /\ TempPath(ICON_SIZES[i].size) \in DOMAIN fs
    /\ TempPath(ICON_SIZES[j].size) \in DOMAIN fs
    /\ OutputPathOf(i) \in DOMAIN fs

====
